---------------------------- MODULE Spec2Model ----------------------------
(***************************************************************************)
(* Model of the smart-file-organizer engine (smart_organizer/core.py) and  *)
(* of its two drivers (smart_organizer/cli.py).                            *)
(*                                                                         *)
(* Strings are sequences of one-character strings, so that lower(),        *)
(* Path.suffix, the substring test `k in name`, the f-string that builds   *)
(* a destination name and str(path) are computed as the code computes      *)
(* them.  A path is written relative to the source root: "a.txt" for a     *)
(* file of the source directory and "Dir/name" for a file of a folder.     *)
(* The "timestamp" field of a ledger entry is never read by the code and   *)
(* is left out of the entries.                                             *)
(***************************************************************************)
EXTENDS Integers, Sequences, FiniteSets, TLC

(***************************************************************************)
(* Bounds of the model.                                                    *)
(***************************************************************************)
MaxCreates == 2
MaxDeletes == 1
MaxSim == 2
MaxContent == 2
MaxDay == 1

(***************************************************************************)
(* Characters and strings.                                                 *)
(***************************************************************************)
(* the letters str.lower() changes, and what it makes of them *)
UpperToLower ==
  [
   A |-> "a", B |-> "b", C |-> "c", D |-> "d", E |-> "e", F |-> "f", G |-> "g",
   H |-> "h", I |-> "i", J |-> "j", K |-> "k", L |-> "l", M |-> "m", N |-> "n",
   O |-> "o", P |-> "p", Q |-> "q", R |-> "r", S |-> "s", T |-> "t", U |-> "u",
   V |-> "v", W |-> "w", X |-> "x", Y |-> "y", Z |-> "z" ]

(* the letters str.upper() changes, and what it makes of them *)
LowerToUpper ==
  [
   a |-> "A", b |-> "B", c |-> "C", d |-> "D", e |-> "E", f |-> "F", g |-> "G",
   h |-> "H", i |-> "I", j |-> "J", k |-> "K", l |-> "L", m |-> "M", n |-> "N",
   o |-> "O", p |-> "P", q |-> "Q", r |-> "R", s |-> "S", t |-> "T", u |-> "U",
   v |-> "V", w |-> "W", x |-> "X", y |-> "Y", z |-> "Z" ]

(* str.lower(), per character (ASCII letters) *)
lower(s) ==
  [i \in 1..Len(s) |-> IF s[i] \in DOMAIN UpperToLower THEN UpperToLower[s[i]] ELSE s[i]]

(* str.upper(), per character (ASCII letters) *)
upper(s) ==
  [i \in 1..Len(s) |-> IF s[i] \in DOMAIN LowerToUpper THEN LowerToUpper[s[i]] ELSE s[i]]

(* str.rfind(c): the last position of c in s (1-based), 0 when there is none *)
rfind(s, c) ==
  LET hits == {i \in 1..Len(s) : s[i] = c}
  IN  IF hits = {} THEN 0 ELSE CHOOSE i \in hits : \A j \in hits : j <= i

(* the substring test `k in s` *)
Contains(k, s) ==
  \E i \in 0..(Len(s) - Len(k)) : SubSeq(s, i + 1, i + Len(k)) = k

(* str.startswith(p) *)
startswith(s, p) ==
  Len(s) >= Len(p) /\ SubSeq(s, 1, Len(p)) = p

(* str.endswith(p) *)
endswith(s, p) ==
  Len(s) >= Len(p) /\ SubSeq(s, Len(s) - Len(p) + 1, Len(s)) = p

(* str.lstrip(c): s without its leading run of c *)
lstrip(s, c) ==
  LET keep == {i \in 1..Len(s) : s[i] # c}
  IN  IF keep = {} THEN <<>>
      ELSE SubSeq(s, CHOOSE i \in keep : \A j \in keep : i <= j, Len(s))

(* PurePath.suffix: the last dot and what follows it, unless that dot is   *)
(* the first or the last character of the name                            *)
suffix(name) ==
  LET i == rfind(name, ".")
  IN  IF 1 < i /\ i < Len(name) THEN SubSeq(name, i, Len(name)) ELSE <<>>

(* the elements of a list *)
Range(s) == {s[i] : i \in 1..Len(s)}

(***************************************************************************)
(* The rule tables of OrganizerEngine.__init__, in dict order.             *)
(***************************************************************************)
rules ==
  << [cat |-> <<"R","e","s","u","m","e","s">>,
       keywords |-> << <<"r","e","s","u","m","e">>,
                 <<"c","v">>,
                 <<"b","i","o">>,
                 <<"p","r","o","f","i","l","e">>,
                 <<"c","u","r","r","i","c","u","l","u","m">> >>],
     [cat |-> <<"I","n","v","o","i","c","e","s">>,
       keywords |-> << <<"i","n","v","o","i","c","e">>,
                 <<"b","i","l","l">>,
                 <<"r","e","c","e","i","p","t">>,
                 <<"p","a","y","m","e","n","t">> >>],
     [cat |-> <<"T","r","a","n","s","c","r","i","p","t","s">>,
       keywords |-> << <<"t","r","a","n","s","c","r","i","p","t">>,
                 <<"m","a","r","k","s","h","e","e","t">>,
                 <<"g","r","a","d","e">>,
                 <<"s","c","o","r","e">> >>],
     [cat |-> <<"C","o","n","t","r","a","c","t","s">>,
       keywords |-> << <<"a","g","r","e","e","m","e","n","t">>,
                 <<"c","o","n","t","r","a","c","t">>,
                 <<"o","f","f","e","r">>,
                 <<"n","d","a">> >>],
     [cat |-> <<"T","a","x","_","D","o","c","s">>,
       keywords |-> << <<"w","2">>,
                 <<"1","0","9","9">>,
                 <<"t","a","x">>,
                 <<"r","e","t","u","r","n">> >>] >>

media_exts ==
  << [cat |-> <<"I","m","a","g","e","s">>,
       extensions |-> << <<".","j","p","g">>,
                 <<".","j","p","e","g">>,
                 <<".","p","n","g">>,
                 <<".","h","e","i","c">>,
                 <<".","g","i","f">>,
                 <<".","w","e","b","p">> >>],
     [cat |-> <<"V","i","d","e","o","s">>,
       extensions |-> << <<".","m","p","4">>,
                 <<".","m","o","v">>,
                 <<".","a","v","i">>,
                 <<".","m","k","v">>,
                 <<".","f","l","v">> >>],
     [cat |-> <<"A","u","d","i","o">>,
       extensions |-> << <<".","m","p","3">>,
                 <<".","w","a","v">>,
                 <<".","a","a","c">>,
                 <<".","m","4","a">>,
                 <<".","f","l","a","c">> >>],
     [cat |-> <<"A","r","c","h","i","v","e","s">>,
       extensions |-> << <<".","z","i","p">>,
                 <<".","r","a","r">>,
                 <<".","7","z">>,
                 <<".","d","m","g">>,
                 <<".","i","s","o">> >>] >>

fallback_groups ==
  << [cat |-> <<"M","i","s","c","_","N","o","t","e","b","o","o","k","s">>,
       extensions |-> << <<".","i","p","y","n","b">> >>],
     [cat |-> <<"M","i","s","c","_","P","r","e","s","e","n","t","a","t","i","o","n","s">>,
       extensions |-> << <<".","p","p","t">>,
                 <<".","p","p","t","x">>,
                 <<".","k","e","y">>,
                 <<".","o","d","p">> >>],
     [cat |-> <<"M","i","s","c","_","D","o","c","u","m","e","n","t","s">>,
       extensions |-> << <<".","d","o","c">>,
                 <<".","d","o","c","x">>,
                 <<".","o","d","t">>,
                 <<".","r","t","f">>,
                 <<".","t","x","t">> >>],
     [cat |-> <<"M","i","s","c","_","S","p","r","e","a","d","s","h","e","e","t","s">>,
       extensions |-> << <<".","x","l","s">>,
                 <<".","x","l","s","x">>,
                 <<".","c","s","v">> >>] >>

(* the first of the rows of a table (dict order) that pass a test, 0 if none *)
FirstRow(hits) ==
  IF hits = {} THEN 0 ELSE CHOOSE i \in hits : \A j \in hits : i <= j

Misc == <<"M","i","s","c","_">>
Misc_Files == <<"M","i","s","c","_","F","i","l","e","s">>

(* Path.stem: the name without its suffix *)
stem(name) == SubSeq(name, 1, Len(name) - Len(suffix(name)))

(* a classifier that looks for the keywords in the stem only *)
_get_category_stem(file_name) ==
  LET name == lower(stem(file_name))
      ext == lower(suffix(file_name))
      HasExt(row) == ext \in Range(row.extensions)
      HasKeyword(row) == \E k \in Range(row.keywords) : Contains(k, name)
      a == FirstRow({i \in 1..Len(media_exts) : HasExt(media_exts[i])})
      b == FirstRow({i \in 1..Len(rules) : HasKeyword(rules[i])})
      c == FirstRow({i \in 1..Len(fallback_groups) : HasExt(fallback_groups[i])})
  IN  IF a # 0 THEN media_exts[a].cat
      ELSE IF b # 0 THEN rules[b].cat
      ELSE IF c # 0 THEN fallback_groups[c].cat
      ELSE IF ext # <<>> THEN Misc \o upper(lstrip(ext, "."))
      ELSE Misc_Files

(* a classifier that looks for the keywords before the media extensions *)
_get_category_keywords_first(file_name) ==
  LET name == lower(file_name)
      ext == lower(suffix(file_name))
      HasExt(row) == ext \in Range(row.extensions)
      HasKeyword(row) == \E k \in Range(row.keywords) : Contains(k, name)
      a == FirstRow({i \in 1..Len(media_exts) : HasExt(media_exts[i])})
      b == FirstRow({i \in 1..Len(rules) : HasKeyword(rules[i])})
      c == FirstRow({i \in 1..Len(fallback_groups) : HasExt(fallback_groups[i])})
  IN  IF b # 0 THEN rules[b].cat
      ELSE IF a # 0 THEN media_exts[a].cat
      ELSE IF c # 0 THEN fallback_groups[c].cat
      ELSE IF ext # <<>> THEN Misc \o upper(lstrip(ext, "."))
      ELSE Misc_Files

(* the last of the rows of a table that pass a test, 0 if none *)
LastRow(hits) ==
  IF hits = {} THEN 0 ELSE CHOOSE i \in hits : \A j \in hits : j <= i

(* a classifier that lets the last matching row of the rule table win *)
_get_category_last_row(file_name) ==
  LET name == lower(file_name)
      ext == lower(suffix(file_name))
      HasExt(row) == ext \in Range(row.extensions)
      HasKeyword(row) == \E k \in Range(row.keywords) : Contains(k, name)
      a == FirstRow({i \in 1..Len(media_exts) : HasExt(media_exts[i])})
      b == LastRow({i \in 1..Len(rules) : HasKeyword(rules[i])})
      c == FirstRow({i \in 1..Len(fallback_groups) : HasExt(fallback_groups[i])})
  IN  IF a # 0 THEN media_exts[a].cat
      ELSE IF b # 0 THEN rules[b].cat
      ELSE IF c # 0 THEN fallback_groups[c].cat
      ELSE IF ext # <<>> THEN Misc \o upper(lstrip(ext, "."))
      ELSE Misc_Files

(* OrganizerEngine._get_category: media extension, then keyword in the    *)
(* lowercased name, then fallback group, then Misc_<EXT> or Misc_Files     *)
_get_category(file_name) ==
  LET name == lower(file_name)
      ext == lower(suffix(file_name))
      HasExt(row) == ext \in Range(row.extensions)
      HasKeyword(row) == \E k \in Range(row.keywords) : Contains(k, name)
      a == FirstRow({i \in 1..Len(media_exts) : HasExt(media_exts[i])})
      b == FirstRow({i \in 1..Len(rules) : HasKeyword(rules[i])})
      c == FirstRow({i \in 1..Len(fallback_groups) : HasExt(fallback_groups[i])})
  IN  IF a # 0 THEN media_exts[a].cat
      ELSE IF b # 0 THEN rules[b].cat
      ELSE IF c # 0 THEN fallback_groups[c].cat
      ELSE IF ext # <<>> THEN Misc \o upper(lstrip(ext, "."))
      ELSE Misc_Files

(* the names files of the source folder are given *)
A_TXT == <<"a",".","t","x","t">>
B_TXT == <<"b",".","t","x","t">>
CV_PDF == <<"c","v",".","p","d","f">>
HIDDEN == <<".","h","i","d">>
RootNames == {A_TXT, B_TXT, CV_PDF, HIDDEN}

CategoryTable == [n \in RootNames |-> _get_category(n)]

(***************************************************************************)
(* Paths and the directory tree under the source root.  `files` maps the   *)
(* path of each regular file to [content, readable]; `dirs` is the set of  *)
(* folders of the source root.                                             *)
(***************************************************************************)
Slash == <<"/">>

(* target_dir / new_name, and str() of the result *)
join(dir, name) == IF dir = <<>> THEN name ELSE dir \o Slash \o name

(* Path.parent *)
parent(p) ==
  LET i == rfind(p, "/") IN IF i = 0 THEN <<>> ELSE SubSeq(p, 1, i - 1)

(* Path.name *)
basename(p) == SubSeq(p, rfind(p, "/") + 1, Len(p))

(* Path.exists() *)
exists(files, dirs, p) == p \in DOMAIN files \/ p \in dirs

(* Path.is_dir() *)
is_dir(dirs, p) == p \in dirs

(* Path.is_file() *)
is_file(files, p) == p \in DOMAIN files

(* Path.iterdir(): the entries of a folder *)
iterdir(files, dir) == {p \in DOMAIN files : parent(p) = dir}

(* a function without the key k *)
Without(f, k) == [x \in DOMAIN f \ {k} |-> f[x]]

(* a function with the key k set to v *)
With(f, k, v) == [x \in DOMAIN f \cup {k} |-> IF x = k THEN v ELSE f[x]]

(* os.rename as shutil.move uses it: the file at src goes to dst, and a    *)
(* file already at dst is replaced                                         *)
rename(files, src, dst) == With(Without(files, src), dst, files[src])

(* the decimal digits of n, as str(n) writes them *)
DigitChars == <<"0","1","2","3","4","5","6","7","8","9">>

RECURSIVE str_int(_)
str_int(n) ==
  IF n < 10 THEN <<DigitChars[n + 1]>>
  ELSE str_int(n \div 10) \o <<DigitChars[(n % 10) + 1]>>

(* the format {idx:02d}: str(idx) padded with zeros to two characters *)
fmt02d(n) == IF n < 10 THEN <<"0">> \o str_int(n) ELSE str_int(n)

(* datetime.fromtimestamp(st_ctime).strftime('%Y-%m-%d'); the creation     *)
(* time is given as a day of January 2024                                  *)
strftime(day) == <<"2","0","2","4","-","0","1","-">> \o fmt02d(day)

(***************************************************************************)
(* Content hashing.  A SHA-256 digest is modelled as the pair of a tag and *)
(* the content it was computed from (no collisions); the value returned on *)
(* a read failure is the empty string.                                     *)
(***************************************************************************)
EmptyDigest == <<>>

hexdigest(content) == <<"sha256", content>>

(* OrganizerEngine._calculate_hash *)
_calculate_hash(files, p) ==
  IF p \in DOMAIN files /\ files[p].readable
  THEN hexdigest(files[p].content)
  ELSE EmptyDigest

(***************************************************************************)
(* The history ledger (.organizer_history.json).  state is "absent" (no    *)
(* file), "corrupt" (a file json.load cannot parse) or "json" (a file      *)
(* holding the list `history`).                                            *)
(***************************************************************************)
(* HISTORY_FILE = Path(".organizer_history.json") *)
HISTORY_FILE ==
  <<".","o","r","g","a","n","i","z","e","r","_","h","i","s","t","o","r","y",
    ".","j","s","o","n">>

NoLedger == [state |-> "absent", history |-> <<>>]
CorruptLedger == [state |-> "corrupt", history |-> <<>>]

(* _log_move that forgets the history already on disk *)
_log_move_fresh(ledger, dry_run, src, dst) ==
  IF ~dry_run
  THEN [state |-> "json", history |-> <<[src |-> src, dst |-> dst]>>]
  ELSE ledger

(* OrganizerEngine._log_move: read the list (empty when the file is absent *)
(* or unparseable), append the entry, rewrite the file unless dry_run      *)
_log_move(ledger, dry_run, src, dst) ==
  LET entry == [src |-> src, dst |-> dst]
      history == IF ledger.state = "json" THEN ledger.history ELSE <<>>
  IN  IF ~dry_run
      THEN [state |-> "json", history |-> Append(history, entry)]
      ELSE ledger

(***************************************************************************)
(* OrganizerEngine.process_file                                            *)
(***************************************************************************)
Duplicates == <<"D","u","p","l","i","c","a","t","e","s">>
Duplicate_ == <<"D","u","p","l","i","c","a","t","e","_">>
Images == <<"I","m","a","g","e","s">>
Videos == <<"V","i","d","e","o","s">>
Audio == <<"A","u","d","i","o">>
Underscore == <<"_">>

(* the naming prefix of a category (core.py, "Logic: Resumes -> Resume") *)
prefix_of(category) ==
  IF category = Images THEN <<"I","m","g">>
  ELSE IF category = Videos THEN <<"V","i","d">>
  ELSE IF category = Audio THEN <<"A","u","d">>
  ELSE IF endswith(category, <<"s">>) /\ Len(category) > 4
       THEN SubSeq(category, 1, Len(category) - 1)
  ELSE category

(* f"{prefix}_{date_str}_{idx:02d}{file_path.suffix}" *)
new_name(prefix, date_str, idx, ext) ==
  prefix \o Underscore \o date_str \o Underscore \o fmt02d(idx) \o ext

(* candidate paths that carry the Duplicate_<idx>_ prefix from the start *)
quarantine_candidate_prefixed(name, n) ==
  join(Duplicates, Duplicate_ \o str_int(n + 1) \o Underscore \o name)

(* the candidate paths of the quarantine loop: Duplicates/<name> first,    *)
(* then Duplicates/Duplicate_<idx>_<name> for idx = 1, 2, ...              *)
quarantine_candidate(name, n) ==
  IF n = 0 THEN join(Duplicates, name)
  ELSE join(Duplicates, Duplicate_ \o str_int(n) \o Underscore \o name)

(* the loop condition without the simulated destinations *)
occupied_on_disk(files, dirs, dry_run, simulated_files, dest) ==
  exists(files, dirs, dest)

(* the loop condition of both naming loops:                                *)
(* dest.exists() or (self.dry_run and str(dest) in self.simulated_files)   *)
occupied(files, dirs, dry_run, simulated_files, dest) ==
  exists(files, dirs, dest) \/ (dry_run /\ dest \in simulated_files)

(* the number of candidates a naming loop can find occupied, plus one *)
LoopLimit(files, simulated_files) ==
  Cardinality(DOMAIN files) + Cardinality(simulated_files) + 1

(* _get_category on the name of a path; the categories of the names the    *)
(* model gives to files are tabulated once                                 *)
category_of(file_path) ==
  IF basename(file_path) \in DOMAIN CategoryTable
  THEN CategoryTable[basename(file_path)]
  ELSE _get_category(basename(file_path))

(* the files of the category folder whose hash equals the hash of          *)
(* file_path: the loop over target_dir.iterdir() stops at the first one    *)
duplicate_matches(files, file_path) ==
  {e \in iterdir(files, category_of(file_path)) :
     is_file(files, e) /\
     _calculate_hash(files, e) = _calculate_hash(files, file_path)}

(* What a call leaves behind: the disk, the engine's simulated             *)
(* destinations, the lines it printed, the exception that ended it ("" if  *)
(* none) and the destination it resolved ("" if none).                     *)
Result(files, dirs, ledger, simulated_files, out, raised, dest) ==
  [files |-> files, dirs |-> dirs, ledger |-> ledger,
   simulated_files |-> simulated_files, out |-> out, raised |-> raised,
   dest |-> dest]

(* print(f"[DUPLICATE] {file_path.name} is identical to {existing_file.name}") *)
duplicate_line(file_path, existing_file) ==
  [kind |-> "DUPLICATE", args |-> <<basename(file_path), basename(existing_file)>>]

(* print(f"  -> Quarantined: Duplicates/{dest.name}") *)
quarantined_line(dest) ==
  [kind |-> "Quarantined", args |-> <<join(Duplicates, basename(dest))>>]

(* print(f"  -> Moved: {category}/{new_name}") *)
moved_line(category, dest) ==
  [kind |-> "Moved", args |-> <<join(category, basename(dest))>>]

(* the quarantine naming loop: the first candidate that is not occupied *)
quarantine_dest(files, dirs, dry_run, simulated_files, name) ==
  quarantine_candidate(name,
    CHOOSE n \in 0..LoopLimit(files, simulated_files) :
      /\ ~occupied(files, dirs, dry_run, simulated_files, quarantine_candidate(name, n))
      /\ \A m \in 0..(n - 1) :
           occupied(files, dirs, dry_run, simulated_files, quarantine_candidate(name, m)))

(* a naming loop that takes the name after the first free one *)
category_dest_next(files, dirs, dry_run, simulated_files, target_dir, prefix, date_str, ext) ==
  join(target_dir, new_name(prefix, date_str,
    1 + (CHOOSE n \in 1..(LoopLimit(files, simulated_files) + 1) :
      /\ ~occupied(files, dirs, dry_run, simulated_files,
                   join(target_dir, new_name(prefix, date_str, n, ext)))
      /\ \A m \in 1..(n - 1) :
           occupied(files, dirs, dry_run, simulated_files,
                    join(target_dir, new_name(prefix, date_str, m, ext)))),
    ext))

(* the category naming loop: idx counts up from 1 until the name is free *)
category_dest(files, dirs, dry_run, simulated_files, target_dir, prefix, date_str, ext) ==
  join(target_dir, new_name(prefix, date_str,
    CHOOSE n \in 1..(LoopLimit(files, simulated_files) + 1) :
      /\ ~occupied(files, dirs, dry_run, simulated_files,
                   join(target_dir, new_name(prefix, date_str, n, ext)))
      /\ \A m \in 1..(n - 1) :
           occupied(files, dirs, dry_run, simulated_files,
                    join(target_dir, new_name(prefix, date_str, m, ext))),
    ext))

(* the duplicate branch once dest is resolved: move and log, or remember *)
quarantine_file(files, dirs, ledger, dry_run, simulated_files, file_path, first_match, dest) ==
  IF ~dry_run THEN
    IF ~is_file(files, file_path)
    THEN Result(files, dirs, ledger, simulated_files,
                <<duplicate_line(file_path, first_match)>>, "FileNotFoundError", <<>>)
    ELSE Result(rename(files, file_path, dest), dirs,
                _log_move(ledger, dry_run, file_path, dest), simulated_files,
                <<duplicate_line(file_path, first_match), quarantined_line(dest)>>,
                "", dest)
  ELSE Result(files, dirs, ledger, simulated_files \cup {dest},
              <<duplicate_line(file_path, first_match), quarantined_line(dest)>>,
              "", dest)

(* the normal branch of an engine that does not remember a simulated move *)
organize_file_forgetful(files, dirs, ledger, dry_run, simulated_files, file_path, category, dest) ==
  IF ~dry_run
  THEN Result(rename(files, file_path, dest), dirs,
              _log_move(ledger, dry_run, file_path, dest), simulated_files,
              <<moved_line(category, dest)>>, "", dest)
  ELSE Result(files, dirs, ledger, simulated_files,
              <<moved_line(category, dest)>>, "", dest)

(* the normal branch once dest is resolved: move and log, or remember *)
organize_file(files, dirs, ledger, dry_run, simulated_files, file_path, category, dest) ==
  IF ~dry_run
  THEN Result(rename(files, file_path, dest), dirs,
              _log_move(ledger, dry_run, file_path, dest), simulated_files,
              <<moved_line(category, dest)>>, "", dest)
  ELSE Result(files, dirs, ledger, simulated_files \cup {dest},
              <<moved_line(category, dest)>>, "", dest)

(* process_file from the creation of the category folder on; what was done *)
(* before an exception stays done                                          *)
process_in_category(files, dirs, ledger, dry_run, simulated_files, file_path, day, first_match, category) ==
  IF is_file(files, category)
    THEN Result(files, dirs, ledger, simulated_files, <<>>, "FileExistsError", <<>>)
  ELSE IF duplicate_matches(files, file_path) # {} THEN
    IF is_file(files, Duplicates)
    THEN Result(files, dirs \cup {category}, ledger, simulated_files,
                <<duplicate_line(file_path, first_match)>>, "FileExistsError", <<>>)
    ELSE quarantine_file(files, dirs \cup {category, Duplicates}, ledger, dry_run,
                         simulated_files, file_path, first_match,
                         quarantine_dest(files, dirs \cup {category, Duplicates}, dry_run,
                                         simulated_files, basename(file_path)))
  ELSE IF ~is_file(files, file_path)
    THEN Result(files, dirs \cup {category}, ledger, simulated_files, <<>>,
                "FileNotFoundError", <<>>)
  ELSE organize_file(files, dirs \cup {category}, ledger, dry_run, simulated_files,
                     file_path, category,
                     category_dest(files, dirs \cup {category}, dry_run, simulated_files,
                                   category, prefix_of(category), strftime(day),
                                   suffix(basename(file_path))))

(* process_file without the guard for folders and hidden names *)
process_file_unguarded(files, dirs, ledger, dry_run, simulated_files, file_path, day, first_match) ==
  process_in_category(files, dirs, ledger, dry_run, simulated_files, file_path,
                      day, first_match, category_of(file_path))

(* The result of process_file(file_path) on the given disk and engine      *)
(* state.  day is the st_ctime read by stat, first_match the match that    *)
(* target_dir.iterdir() yields first.                                      *)
process_file(files, dirs, ledger, dry_run, simulated_files, file_path, day, first_match) ==
  IF is_dir(dirs, file_path) \/ startswith(basename(file_path), <<".">>)
  THEN Result(files, dirs, ledger, simulated_files, <<>>, "", <<>>)
  ELSE process_in_category(files, dirs, ledger, dry_run, simulated_files, file_path,
                           day, first_match, category_of(file_path))

(***************************************************************************)
(* OrganizerEngine.undo_last_operation                                     *)
(***************************************************************************)

(* shutil.move(dst, src) of the undo loop: into src when src is a folder   *)
(* (shutil.Error if the name is taken there), else a rename that replaces  *)
(* a file already at src                                                   *)
undo_move(files, dirs, dst, src) ==
  IF is_dir(dirs, src)
  THEN IF exists(files, dirs, join(src, basename(dst)))
       THEN [files |-> files, raised |-> "shutil.Error"]
       ELSE [files |-> rename(files, dst, join(src, basename(dst))), raised |-> ""]
  ELSE [files |-> rename(files, dst, src), raised |-> ""]

(* print(f"Restoring: {dst.name} -> {src.name}") *)
restoring_line(entry) ==
  [kind |-> "Restoring", args |-> <<basename(entry.dst), basename(entry.src)>>]

(* print(f"Warning: File {dst} not found. Cannot restore.") *)
warning_line(entry) == [kind |-> "Warning", args |-> <<entry.dst>>]

(* a restore that removes the folder whether or not it is empty *)
restore_entry_rmtree(st, entry, mv, rmdir_ok) ==
  IF mv.raised # ""
  THEN [st EXCEPT !.out = Append(@, restoring_line(entry)), !.raised = mv.raised]
  ELSE [st EXCEPT !.files = mv.files,
                  !.dirs = IF rmdir_ok THEN @ \ {parent(entry.dst)} ELSE @,
                  !.out = Append(@, restoring_line(entry))]

(* the restore of one entry once shutil.move has returned mv: the cleanup  *)
(* of the emptied folder                                                   *)
restore_entry(st, entry, mv, rmdir_ok) ==
  IF mv.raised # ""
  THEN [st EXCEPT !.out = Append(@, restoring_line(entry)), !.raised = mv.raised]
  ELSE [st EXCEPT !.files = mv.files,
                  !.dirs = IF iterdir(mv.files, parent(entry.dst)) = {} /\ rmdir_ok
                           THEN @ \ {parent(entry.dst)} ELSE @,
                  !.out = Append(@, restoring_line(entry))]

(* the loop body that gives up at a destination that is missing *)
undo_entry_strict(st, entry, dry_run, rmdir_ok) ==
  IF st.raised # "" THEN st
  ELSE IF exists(st.files, st.dirs, entry.dst) THEN
    IF dry_run THEN [st EXCEPT !.out = Append(@, restoring_line(entry))]
    ELSE restore_entry(st, entry, undo_move(st.files, st.dirs, entry.dst, entry.src),
                       rmdir_ok)
  ELSE [st EXCEPT !.raised = "FileNotFoundError"]

(* one pass of the loop body for the ledger entry `entry`; st carries the  *)
(* disk, the lines printed so far and the exception raised, if any         *)
undo_entry(st, entry, dry_run, rmdir_ok) ==
  IF st.raised # "" THEN st
  ELSE IF exists(st.files, st.dirs, entry.dst) THEN
    IF dry_run THEN [st EXCEPT !.out = Append(@, restoring_line(entry))]
    ELSE restore_entry(st, entry, undo_move(st.files, st.dirs, entry.dst, entry.src),
                       rmdir_ok)
  ELSE [st EXCEPT !.out = Append(@, warning_line(entry))]

(* a loop over the history from its first entry to its last *)
RECURSIVE undo_loop_forward(_, _, _, _, _)
undo_loop_forward(st, history, i, dry_run, rmdir_ok) ==
  IF i = 0 THEN st
  ELSE undo_loop_forward(undo_entry(st, history[Len(history) - i + 1], dry_run, rmdir_ok),
                         history, i - 1, dry_run, rmdir_ok)

(* for entry in reversed(history): the entries from position i down to 1 *)
RECURSIVE undo_loop(_, _, _, _, _)
undo_loop(st, history, i, dry_run, rmdir_ok) ==
  IF i = 0 THEN st
  ELSE undo_loop(undo_entry(st, history[i], dry_run, rmdir_ok),
                 history, i - 1, dry_run, rmdir_ok)

(* the end of undo_last_operation: os.remove(HISTORY_FILE) unless dry_run  *)
(* or an exception ended the loop                                          *)
undo_finish(st, dry_run) ==
  IF st.raised = "" /\ ~dry_run THEN [st EXCEPT !.ledger = NoLedger] ELSE st

(* The result of undo_last_operation() on the given disk.  rmdir_ok tells  *)
(* whether removing an emptied folder succeeds.                            *)
undo_last_operation(files, dirs, ledger, dry_run, rmdir_ok) ==
  IF ledger.state = "absent"
    THEN [files |-> files, dirs |-> dirs, ledger |-> ledger, raised |-> "",
          out |-> <<[kind |-> "No history found.", args |-> <<>>]>>]
  ELSE IF ledger.state = "corrupt"
    THEN [files |-> files, dirs |-> dirs, ledger |-> ledger,
          raised |-> "JSONDecodeError", out |-> <<>>]
  ELSE IF ledger.history = <<>>
    THEN [files |-> files, dirs |-> dirs, ledger |-> ledger, raised |-> "",
          out |-> <<[kind |-> "History is empty.", args |-> <<>>]>>]
  ELSE undo_finish(
         undo_loop([files |-> files, dirs |-> dirs, ledger |-> ledger, raised |-> "",
                    out |-> <<[kind |-> "Undoing", args |-> <<Len(ledger.history)>>]>>],
                   ledger.history, Len(ledger.history), dry_run, rmdir_ok),
         dry_run)


(***************************************************************************)
(* The state machine: one engine at a time working on one source folder.   *)
(***************************************************************************)
VARIABLES
  files,            \* disk: path of each regular file -> [content, readable]
  dirs,             \* disk: the folders of the source root
  ledger,           \* disk: the history file
  dry_run,          \* engine: self.dry_run
  simulated_files,  \* engine: self.simulated_files
  last,             \* the last call: what was called, printed and raised
  applied,          \* history: the moves executed since the ledger was last absent
  creates,          \* number of files created so far
  deletes,          \* number of files removed by hand so far
  cl_name,          \* classification: the file name given to _get_category
  cl_cat,           \* classification: the category it returned
  twin,             \* side by side: a dry-run engine on a copy of the folder
  scan              \* the one-shot scan loop of main: where it stands

vars == <<files, dirs, ledger, dry_run, simulated_files, last, applied,
          creates, deletes, cl_name, cl_cat, twin, scan>>

Contents == 1..MaxContent
Days == 1..MaxDay
FileValues == [content : Contents, readable : BOOLEAN]

HiddenFile == [content |-> 1, readable |-> TRUE]

PdfFile == [content |-> 1, readable |-> TRUE]

(* no second engine runs beside the first *)
NoTwin == [files |-> <<>>, dirs |-> {}, ledger |-> NoLedger, simulated_files |-> {},
           out |-> <<>>, raised |-> "", dest |-> <<>>, own |-> FALSE]

(* main is not in its scan loop *)
NoScan == [state |-> "idle", items |-> {}, item |-> <<>>]

NoCall == [op |-> "none", file |-> <<>>, dry |-> FALSE, out |-> <<>>,
           raised |-> "", dest |-> <<>>, duplicate |-> FALSE]

(* a folder that holds one hidden file, with the ledger file as given,     *)
(* and an engine just constructed on it                                    *)
InitWith(history_file) ==
  /\ files = (HIDDEN :> HiddenFile)
  /\ dirs = {}
  /\ ledger = history_file
  /\ dry_run \in BOOLEAN
  /\ simulated_files = {}
  /\ last = NoCall
  /\ applied = <<>>
  /\ creates = 0
  /\ deletes = 0
  /\ cl_name = <<>>
  /\ cl_cat = <<>>
  /\ twin = NoTwin
  /\ scan = NoScan

Init == InitWith(NoLedger)

(* OrganizerEngine.__init__: a new engine on the same folder *)
NewEngine(d) ==
  /\ dry_run' = d
  /\ simulated_files' = {}
  /\ UNCHANGED <<files, dirs, ledger, last, applied, creates, deletes,
                 cl_name, cl_cat, twin, scan>>

(* the state after a call of process_file(file_path) that left r behind *)
Processed(file_path, r) ==
  /\ files' = r.files
  /\ dirs' = r.dirs
  /\ ledger' = r.ledger
  /\ simulated_files' = r.simulated_files
  /\ last' = [op |-> "process_file", file |-> file_path, dry |-> dry_run,
              out |-> r.out, raised |-> r.raised, dest |-> r.dest,
              duplicate |-> (r.out # <<>> /\ r.out[1].kind = "DUPLICATE")]
  /\ applied' = IF ~dry_run /\ r.raised = "" /\ r.dest # <<>>
                THEN Append(applied, [src |-> file_path, dst |-> r.dest,
                                      file |-> files[file_path]])
                ELSE applied
  /\ UNCHANGED <<dry_run, creates, deletes, cl_name, cl_cat>>

(* a call of process_file(file_path), from the scan loop of main or from   *)
(* WatcherHandler.on_created                                               *)
ProcessFile(file_path, day, first_match) ==
  /\ dry_run => Cardinality(simulated_files) < MaxSim
  /\ first_match \in (IF duplicate_matches(files, file_path) = {} THEN {<<>>}
                       ELSE duplicate_matches(files, file_path))
  /\ Processed(file_path, process_file(files, dirs, ledger, dry_run, simulated_files,
                                       file_path, day, first_match))
  /\ UNCHANGED <<twin, scan>>

(* the state after a call of undo_last_operation() that left r behind *)
Undone(r) ==
  /\ files' = r.files
  /\ dirs' = r.dirs
  /\ ledger' = r.ledger
  /\ last' = [op |-> "undo_last_operation", file |-> <<>>, dry |-> dry_run,
              out |-> r.out, raised |-> r.raised, dest |-> <<>>,
              duplicate |-> FALSE]
  /\ applied' = IF r.ledger.state = "absent" THEN <<>> ELSE applied
  /\ UNCHANGED <<dry_run, simulated_files, creates, deletes, cl_name, cl_cat, twin, scan>>

(* a call of undo_last_operation() *)
Undo(rmdir_ok) ==
  Undone(undo_last_operation(files, dirs, ledger, dry_run, rmdir_ok))

(* a new file appears in the source folder (the event on_created reacts to) *)
CreateFile(name, value) ==
  /\ creates < MaxCreates
  /\ ~exists(files, dirs, name)
  /\ files' = With(files, name, value)
  /\ creates' = creates + 1
  /\ UNCHANGED <<dirs, ledger, dry_run, simulated_files, last, applied,
                 deletes, cl_name, cl_cat, twin, scan>>

(* somebody removes by hand a file the ledger records as moved *)
DeleteFile(p) ==
  /\ deletes < MaxDeletes
  /\ \E i \in 1..Len(ledger.history) : ledger.history[i].dst = p
  /\ files' = Without(files, p)
  /\ deletes' = deletes + 1
  /\ UNCHANGED <<dirs, ledger, dry_run, simulated_files, last, applied,
                 creates, cl_name, cl_cat, twin, scan>>

Next ==
  \/ \E d \in BOOLEAN : NewEngine(d)
  \/ \E f \in iterdir(files, <<>>) \cup dirs, day \in Days,
          m \in DOMAIN files \cup {<<>>} : ProcessFile(f, day, m)
  \/ Undo(TRUE)
  \/ \E n \in {A_TXT, B_TXT}, v \in FileValues : CreateFile(n, v)
  \/ CreateFile(CV_PDF, PdfFile)

Spec == Init /\ [][Next]_vars

(* the same engine and drivers on a folder whose ledger file is unparseable *)
InitCorrupt == InitWith(CorruptLedger)

SpecCorrupt == InitCorrupt /\ [][Next]_vars

(* the same, with organized files removed by hand between the calls and    *)
(* with undo passes whose removal of an emptied folder fails               *)
NextTamper ==
  \/ Next
  \/ Undo(FALSE)
  \/ \E p \in DOMAIN files : DeleteFile(p)

SpecTamper == Init /\ [][NextTamper]_vars

(* A real engine and a dry-run engine side by side: both start on the same *)
(* folder (the dry-run engine on its own copy) and are given the same      *)
(* files in the same order.                                                *)
MISC_DOCUMENTS == <<"M","i","s","c","_","D","o","c","u","m","e","n","t","s">>
OLD_TXT == join(MISC_DOCUMENTS,
                new_name(prefix_of(MISC_DOCUMENTS), strftime(1), 1, <<".","t","x","t">>))

(* the folders the two engines start on: a.txt and b.txt, with or without  *)
(* cv.pdf, with or without a file organized on an earlier day              *)
PairDisks ==
  { disk \in UNION { [S -> FileValues] :
                       S \in { {HIDDEN, A_TXT, B_TXT} \cup T : T \in SUBSET {CV_PDF, OLD_TXT} } } :
      /\ disk[HIDDEN] = HiddenFile
      /\ CV_PDF \in DOMAIN disk => disk[CV_PDF] = PdfFile }

InitPair ==
  /\ files \in PairDisks
  /\ dirs = {parent(p) : p \in DOMAIN files} \ {<<>>}
  /\ ledger = NoLedger
  /\ dry_run = FALSE
  /\ simulated_files = {}
  /\ last = NoCall
  /\ applied = <<>>
  /\ creates = 0
  /\ deletes = 0
  /\ cl_name = <<>>
  /\ cl_cat = <<>>
  /\ twin = [NoTwin EXCEPT !.files = files, !.dirs = dirs]
  /\ scan = NoScan

(* what the dry-run engine leaves behind, and whether the real engine has  *)
(* flagged a file as a duplicate only of files it moved itself             *)
Twinned(d, own) ==
  twin' = [files |-> d.files, dirs |-> d.dirs, ledger |-> d.ledger,
           simulated_files |-> d.simulated_files, out |-> d.out,
           raised |-> d.raised, dest |-> d.dest, own |-> twin.own \/ own]

FirstMatches(disk, file_path) ==
  IF duplicate_matches(disk, file_path) = {} THEN {<<>>}
  ELSE duplicate_matches(disk, file_path)

(* both engines process file_path *)
PairProcess(file_path, day, real_match, dry_match) ==
  /\ real_match \in FirstMatches(files, file_path)
  /\ dry_match \in FirstMatches(twin.files, file_path)
  /\ Processed(file_path, process_file(files, dirs, ledger, dry_run, simulated_files,
                                       file_path, day, real_match))
  /\ UNCHANGED scan
  /\ Twinned(process_file(twin.files, twin.dirs, twin.ledger, TRUE,
                          twin.simulated_files, file_path, day, dry_match),
             /\ ~startswith(basename(file_path), <<".">>)
             /\ duplicate_matches(files, file_path) # {}
             /\ duplicate_matches(files, file_path) \subseteq
                  {applied[i].dst : i \in 1..Len(applied)})

NextPair ==
  \E f \in iterdir(files, <<>>), day \in Days,
     rm \in DOMAIN files \cup {<<>>}, dm \in DOMAIN twin.files \cup {<<>>} :
       PairProcess(f, day, rm, dm)

SpecPair == InitPair /\ [][NextPair]_vars

(* the drivers on a folder that was organized before: Misc_Documents holds *)
(* a file that no ledger records                                           *)
InitKept ==
  /\ files = (HIDDEN :> HiddenFile) @@ (OLD_TXT :> PdfFile)
  /\ dirs = {MISC_DOCUMENTS}
  /\ ledger = NoLedger
  /\ dry_run \in BOOLEAN
  /\ simulated_files = {}
  /\ last = NoCall
  /\ applied = <<>>
  /\ creates = 0
  /\ deletes = 0
  /\ cl_name = <<>>
  /\ cl_cat = <<>>
  /\ twin = NoTwin
  /\ scan = NoScan

SpecKept == InitKept /\ [][NextTamper]_vars

(* The one-shot scan of main, statement by statement: the listing of the   *)
(* folder, the is_file test of an item, the call of process_file on it.    *)
(* An exception of process_file is caught nowhere and ends main.  Other    *)
(* programs may remove a file of the folder while the scan runs.           *)
MISC_FILES == Misc_Files

ScanDisks ==
  { disk \in UNION { [S -> FileValues] :
                       S \in { {HIDDEN, A_TXT, B_TXT} \cup T : T \in SUBSET {MISC_FILES} } } :
      /\ disk[HIDDEN] = HiddenFile
      /\ MISC_FILES \in DOMAIN disk => disk[MISC_FILES] = PdfFile }

InitScan ==
  /\ files \in ScanDisks
  /\ dirs = {}
  /\ ledger = NoLedger
  /\ dry_run \in BOOLEAN
  /\ simulated_files = {}
  /\ last = NoCall
  /\ applied = <<>>
  /\ creates = 0
  /\ deletes = 0
  /\ cl_name = <<>>
  /\ cl_cat = <<>>
  /\ twin = NoTwin
  /\ scan = NoScan

(* for item in target_path.iterdir(): the entries are listed once *)
ScanList ==
  /\ scan.state = "idle"
  /\ scan' = [state |-> "listed", items |-> iterdir(files, <<>>) \cup dirs, item |-> <<>>]
  /\ UNCHANGED <<files, dirs, ledger, dry_run, simulated_files, last, applied,
                 creates, deletes, cl_name, cl_cat, twin>>

(* if item.is_file(): the next item of the listing is tested *)
ScanTest(item) ==
  /\ scan.state = "listed"
  /\ item \in scan.items
  /\ scan' = [state |-> IF is_file(files, item) THEN "tested" ELSE "listed",
              items |-> scan.items \ {item}, item |-> item]
  /\ UNCHANGED <<files, dirs, ledger, dry_run, simulated_files, last, applied,
                 creates, deletes, cl_name, cl_cat, twin>>

(* engine.process_file(item): an exception leaves the loop and main *)
ScanCall(day, first_match) ==
  /\ scan.state = "tested"
  /\ first_match \in FirstMatches(files, scan.item)
  /\ Processed(scan.item, process_file(files, dirs, ledger, dry_run, simulated_files,
                                       scan.item, day, first_match))
  /\ scan' = [scan EXCEPT !.state = IF last'.raised = "" THEN "listed" ELSE "raised"]
  /\ UNCHANGED twin

(* print("Done."): the listing is exhausted *)
ScanDone ==
  /\ scan.state = "listed"
  /\ scan.items = {}
  /\ scan' = [scan EXCEPT !.state = "done"]
  /\ UNCHANGED <<files, dirs, ledger, dry_run, simulated_files, last, applied,
                 creates, deletes, cl_name, cl_cat, twin>>

(* another program removes a file of the folder while the scan runs *)
Vanish(p) ==
  /\ scan.state \in {"listed", "tested"}
  /\ deletes < MaxDeletes
  /\ p \in iterdir(files, <<>>)
  /\ files' = Without(files, p)
  /\ deletes' = deletes + 1
  /\ UNCHANGED <<dirs, ledger, dry_run, simulated_files, last, applied,
                 creates, cl_name, cl_cat, twin, scan>>

NextScan ==
  \/ ScanList
  \/ \E item \in scan.items : ScanTest(item)
  \/ \E day \in Days, m \in DOMAIN files \cup {<<>>} : ScanCall(day, m)
  \/ ScanDone
  \/ \E p \in DOMAIN files : Vanish(p)

SpecScan == InitScan /\ [][NextScan]_vars

(* the names _get_category is called on: every stem with every ending *)
Stems ==
  { <<"a">>,
    <<"C","V">>,
    <<"m","y","_","b","i","l","l">>,
    <<"T","a","x","_","R","e","t","u","r","n">>,
    <<"b","i","l","l","_","c","v">>,
    <<"n","d","a">>,
    <<".","h","i","d">>,
    <<"x",".","y">>,
    <<"G","r","a","d","e">> }

Endings ==
  { <<>>,
    <<".","t","x","t">>,
    <<".","J","P","G">>,
    <<".","c","v">>,
    <<".","x","y","z">>,
    <<".","p","d","f">>,
    <<".","B","i","l","l">>,
    <<".">> }

ClassifyNames == {st \o e : st \in Stems, e \in Endings}

(* a file of some name is about to be classified *)
InitClassify ==
  /\ files = (HIDDEN :> HiddenFile)
  /\ dirs = {}
  /\ ledger = NoLedger
  /\ dry_run \in BOOLEAN
  /\ simulated_files = {}
  /\ last = NoCall
  /\ applied = <<>>
  /\ creates = 0
  /\ deletes = 0
  /\ cl_name \in ClassifyNames
  /\ cl_cat = <<>>
  /\ twin = NoTwin
  /\ scan = NoScan

(* category = self._get_category(file_path) *)
Classify ==
  /\ cl_name # <<>>
  /\ cl_cat = <<>>
  /\ cl_cat' = _get_category(cl_name)
  /\ UNCHANGED <<files, dirs, ledger, dry_run, simulated_files, last, applied,
                 creates, deletes, cl_name, twin, scan>>

SpecClassify == InitClassify /\ [][Classify]_vars

(***************************************************************************)
(* Steps of the two operations, for the properties below.                  *)
(***************************************************************************)
IsProcessStep ==
  /\ last'.op = "process_file"
  /\ \E day \in Days, m \in DOMAIN files \cup {<<>>} :
       ProcessFile(last'.file, day, m)

IsUndoStep ==
  /\ last'.op = "undo_last_operation"
  /\ \E ok \in BOOLEAN : Undo(ok)

(* the destinations of the moves executed since the ledger was last absent *)
AppliedDests == {applied[i].dst : i \in 1..Len(applied)}

(***************************************************************************)
(* C2: the ledger on disk is exactly the list of the moves executed since  *)
(* the last undo, in the order they were executed: one record {src, dst}   *)
(* per move, none for anything else, and there is no ledger file when no   *)
(* move was executed; each recorded file is at its destination.            *)
(***************************************************************************)
LedgerIsAppliedMoves ==
  /\ ledger.state \in {"absent", "json"}
  /\ (ledger.state = "absent") <=> (applied = <<>>)
  /\ Len(ledger.history) = Len(applied)
  /\ \A i \in 1..Len(applied) :
       /\ ledger.history[i] = [src |-> applied[i].src, dst |-> applied[i].dst]
       /\ applied[i].dst \in DOMAIN files
       /\ files[applied[i].dst] = applied[i].file

(* two moves were executed and recorded *)
TwoMovesRecorded == Len(applied) = 2 /\ ledger.state = "json"

(***************************************************************************)
(* C1: a non-dry-run undo_last_operation leaves no ledger file and puts    *)
(* every file moved since the ledger was last absent back at its original  *)
(* path, with its original content.                                        *)
(***************************************************************************)
UndoRestoresEveryMove ==
  [][IsUndoStep /\ ~dry_run =>
       /\ ledger'.state = "absent"
       /\ \A i \in 1..Len(applied) :
            /\ applied[i].src \in DOMAIN files'
            /\ files'[applied[i].src] = applied[i].file]_vars

(* no two of the moves executed since the ledger was last absent started   *)
(* from the same path                                                      *)
DistinctSources ==
  \A i, j \in 1..Len(applied) : applied[i].src = applied[j].src => i = j

(* the same, for the histories whose moves started from distinct paths *)
UndoRestoresDistinctSources ==
  [][IsUndoStep /\ ~dry_run /\ DistinctSources =>
       /\ ledger'.state = "absent"
       /\ \A i \in 1..Len(applied) :
            /\ applied[i].src \in DOMAIN files'
            /\ files'[applied[i].src] = applied[i].file]_vars

(***************************************************************************)
(* C3: the destination a process_file call resolves is not occupied on     *)
(* disk and differs from every destination resolved before it in the run:  *)
(* the simulated destinations of a dry run, the destinations of the moves  *)
(* executed since the last undo in a real run.  Both the category and the  *)
(* Duplicates destinations are covered.                                    *)
(***************************************************************************)
DestinationsNeverCollide ==
  [][IsProcessStep /\ last'.dest # <<>> =>
       /\ ~exists(files, dirs, last'.dest)
       /\ last'.dest \notin simulated_files
       /\ last'.dest \notin AppliedDests]_vars

(* a dry run has resolved two destinations in the same folder *)
TwoSimulatedInOneFolder ==
  /\ dry_run
  /\ \E d1, d2 \in simulated_files : d1 # d2 /\ parent(d1) = parent(d2)

(***************************************************************************)
(* C4: a dry-run process_file changes neither the files, nor the folders,  *)
(* nor the ledger.                                                         *)
(***************************************************************************)
DryRunLeavesDiskUntouched ==
  [][IsProcessStep /\ dry_run =>
       files' = files /\ dirs' = dirs /\ ledger' = ledger]_vars

(***************************************************************************)
(* C6: process_file flags a file as a duplicate if and only if some        *)
(* regular file of its category folder has the same content (identical     *)
(* content is always flagged, differing content never).                    *)
(***************************************************************************)
SameContentInFolder(file_path) ==
  \E e \in iterdir(files, category_of(file_path)) :
    files[e].content = files[file_path].content

Handled(file_path) ==
  /\ file_path \in DOMAIN files
  /\ ~startswith(basename(file_path), <<".">>)
  /\ last'.raised = ""

FlaggedIffSameContent ==
  [][IsProcessStep /\ Handled(last'.file) =>
       (last'.duplicate <=> SameContentInFolder(last'.file))]_vars

(* one half of it: files of differing content are never flagged *)
FlaggedOnlyIfSameContent ==
  [][IsProcessStep /\ Handled(last'.file) =>
       (last'.duplicate => SameContentInFolder(last'.file))]_vars

(* the same, when every file involved can be read *)
AllReadable(file_path) ==
  \A e \in iterdir(files, category_of(file_path)) \cup {file_path} : files[e].readable

FlaggedIffSameContentReadable ==
  [][IsProcessStep /\ Handled(last'.file) /\ AllReadable(last'.file) =>
       (last'.duplicate <=> SameContentInFolder(last'.file))]_vars

(***************************************************************************)
(* C7: an unreadable file is never flagged as a duplicate (the empty       *)
(* fingerprint of a read failure matches nothing, itself included).        *)
(***************************************************************************)
UnreadableNeverFlagged ==
  [][/\ IsProcessStep
     /\ last'.file \in DOMAIN files
     /\ ~files[last'.file].readable
     => ~last'.duplicate]_vars

(***************************************************************************)
(* C8: a non-dry-run undo pass handles every record of the ledger, the     *)
(* latest first.  A record whose file is no longer at its destination      *)
(* (the path is gone, or a later record reused it) is skipped with a       *)
(* warning; every other record is restored: its destination is vacated and *)
(* its source path holds the file of a record restored to it.  The pass    *)
(* raises nothing and leaves no ledger file.                               *)
(***************************************************************************)
Live(h, i) ==
  /\ exists(files, dirs, h[i].dst)
  /\ \A j \in (i + 1)..Len(h) : h[j].dst # h[i].dst

UndoHandled(h) ==
  /\ ledger'.state = "absent"
  /\ last'.raised = ""
  /\ Len(last'.out) = Len(h) + 1
  /\ \A i \in 1..Len(h) :
       IF Live(h, i)
       THEN /\ last'.out[Len(h) - i + 2] = restoring_line(h[i])
            /\ h[i].dst \notin DOMAIN files'
            /\ h[i].src \in DOMAIN files'
            /\ \E j \in 1..Len(h) :
                 /\ Live(h, j)
                 /\ h[j].src = h[i].src
                 /\ files'[h[i].src] = files[h[j].dst]
            /\ (\A j \in 1..Len(h) : Live(h, j) /\ h[j].src = h[i].src => j = i)
                 => files'[h[i].src] = files[h[i].dst]
       ELSE last'.out[Len(h) - i + 2] = warning_line(h[i])

UndoSkipsOnlyMissing ==
  [][IsUndoStep /\ ~dry_run /\ ledger.state = "json" => UndoHandled(ledger.history)]_vars

(* an undo pass has skipped one record, restored another, and cleared the ledger *)
UndoSkippedAndRestored ==
  /\ last.op = "undo_last_operation"
  /\ ~last.dry
  /\ ledger.state = "absent"
  /\ \E i, j \in 1..Len(last.out) :
       last.out[i].kind = "Warning" /\ last.out[j].kind = "Restoring"

(***************************************************************************)
(* C9: an unparseable ledger file reads as an empty history: the append of *)
(* process_file starts from the empty list, and undo_last_operation        *)
(* reports and returns without raising and without touching the disk.      *)
(***************************************************************************)
CorruptLedgerReadsAsEmpty ==
  [][ledger.state = "corrupt" =>
       /\ IsProcessStep /\ ledger' # ledger =>
            ledger' = [state |-> "json",
                       history |-> <<[src |-> last'.file, dst |-> last'.dest]>>]
       /\ IsUndoStep =>
            last'.raised = "" /\ files' = files /\ dirs' = dirs]_vars

(***************************************************************************)
(* C10: _get_category returns a category for every name, by four tiers in  *)
(* order.  As the claim states them, the keyword tier looks at the name    *)
(* without its extension (KeywordText is the stem); as the code has them,  *)
(* it looks at the whole lowercased name, extension included.              *)
(***************************************************************************)
RowsWithExt(table, ext) ==
  {i \in 1..Len(table) : \E e \in Range(table[i].extensions) : e = ext}

RowsWithKeyword(text) ==
  {i \in 1..Len(rules) : \E k \in Range(rules[i].keywords) : Contains(k, lower(text))}

FollowsTiers(file_name, cat, text) ==
  LET ext == lower(suffix(file_name))
      media == RowsWithExt(media_exts, ext)
      keyword == RowsWithKeyword(text)
      group == RowsWithExt(fallback_groups, ext)
  IN  /\ cat # <<>>
      /\ media # {} => \E i \in media : cat = media_exts[i].cat
      /\ media = {} /\ keyword # {} =>
           \E i \in keyword : cat = rules[i].cat /\ \A j \in keyword : i <= j
      /\ media = {} /\ keyword = {} /\ group # {} =>
           \E i \in group : cat = fallback_groups[i].cat
      /\ media = {} /\ keyword = {} /\ group = {} /\ ext # <<>> =>
           cat = Misc \o upper(SubSeq(ext, 2, Len(ext)))
      /\ media = {} /\ keyword = {} /\ group = {} /\ ext = <<>> =>
           cat = Misc_Files

(* C10 as stated: the keyword tier matches the filename without its        *)
(* extension, so a keyword found only in the extension does not count      *)
ClassifyByStemKeywords ==
  cl_cat # <<>> => FollowsTiers(cl_name, cl_cat, stem(cl_name))

(* C10 amended: the keyword tier matches the whole lowercased filename,    *)
(* extension included; the other three tiers are as stated                 *)
ClassifyByNameKeywords ==
  cl_cat # <<>> => FollowsTiers(cl_name, cl_cat, cl_name)

(* a name whose only keyword is in its extension got the keyword's category *)
KeywordInExtensionClassified ==
  /\ cl_cat # <<>>
  /\ RowsWithExt(media_exts, lower(suffix(cl_name))) = {}
  /\ RowsWithKeyword(stem(cl_name)) = {}
  /\ \E i \in RowsWithKeyword(cl_name) : cl_cat = rules[i].cat

(***************************************************************************)
(* C5: a dry-run engine and a real engine that start on the same folder    *)
(* and process the same files in the same order report the same outcome    *)
(* for each file: duplicate or moved, the category and the name given.     *)
(***************************************************************************)
Reported(out) ==
  [duplicate |-> (out # <<>> /\ out[1].kind = "DUPLICATE"),
   decision |-> IF out = <<>> THEN <<>> ELSE out[Len(out)]]

(* C5 as stated: the two engines always report the same outcome *)
DryRunReportsAsRealRun ==
  last.op = "process_file" =>
    Reported(twin.out) = Reported(last.out) /\ twin.raised = last.raised

(* C5 amended: the two engines report the same outcome for every file      *)
(* until the real engine flags a file as a duplicate only of files it      *)
(* moved into the category folder itself, earlier in the same sequence;    *)
(* the dry-run engine compares contents with the files really in the       *)
(* folder, so it reports that file as moved.                               *)
DryRunReportsAsRealRunUntilOwnDuplicate ==
  last.op = "process_file" /\ ~twin.own =>
    Reported(twin.out) = Reported(last.out) /\ twin.raised = last.raised

(* both engines have organized one file and then flagged the next as a     *)
(* duplicate of a file that was in the category folder from the start      *)
BothFlaggedSecondFile ==
  /\ ~twin.own
  /\ last.op = "process_file"
  /\ last.duplicate
  /\ Reported(twin.out).duplicate
  /\ Cardinality(twin.simulated_files) = 2
  /\ Len(applied) = 2

(***************************************************************************)
(* C11: for a file whose extension is in the media table or in the         *)
(* fallback-group table the category depends on the extension only: every  *)
(* name with the same extension gets the same category.                    *)
(***************************************************************************)
SameExtension(n1, n2) == lower(suffix(n1)) = lower(suffix(n2))

InMediaTable(file_name) == RowsWithExt(media_exts, lower(suffix(file_name))) # {}

InFallbackTable(file_name) ==
  RowsWithExt(fallback_groups, lower(suffix(file_name))) # {}

(* C11 as stated: media and fallback-group extensions alike *)
ExtensionAloneDecides ==
  cl_cat # <<>> /\ (InMediaTable(cl_name) \/ InFallbackTable(cl_name)) =>
    \A n \in ClassifyNames : SameExtension(n, cl_name) => _get_category(n) = cl_cat

(* C11 amended: a media extension alone decides the category; a            *)
(* fallback-group extension decides it among the names that contain no     *)
(* keyword, and a name that contains one gets the keyword's category       *)
ExtensionDecidesUnlessKeyword ==
  cl_cat # <<>> =>
    /\ InMediaTable(cl_name) =>
         \A n \in ClassifyNames : SameExtension(n, cl_name) => _get_category(n) = cl_cat
    /\ InFallbackTable(cl_name) /\ RowsWithKeyword(cl_name) = {} =>
         \A n \in ClassifyNames :
           SameExtension(n, cl_name) /\ RowsWithKeyword(n) = {} => _get_category(n) = cl_cat
    /\ InFallbackTable(cl_name) /\ RowsWithKeyword(cl_name) # {} =>
         \E i \in RowsWithKeyword(cl_name) : cl_cat = rules[i].cat

(* a name that contains a keyword and ends in a media extension got the    *)
(* media category                                                          *)
KeywordNameWithMediaExtension ==
  /\ cl_cat # <<>>
  /\ RowsWithKeyword(cl_name) # {}
  /\ \E i \in RowsWithExt(media_exts, lower(suffix(cl_name))) : cl_cat = media_exts[i].cat

(***************************************************************************)
(* C12: a name that contains a keyword and whose extension is not a media  *)
(* extension gets the category of that keyword, for every keyword it       *)
(* contains.                                                               *)
(***************************************************************************)
(* C12 as stated: the category of every keyword the name contains *)
EveryKeywordDecides ==
  cl_cat # <<>> /\ ~InMediaTable(cl_name) =>
    \A i \in RowsWithKeyword(cl_name) : cl_cat = rules[i].cat

(* C12 amended: the category of the first row of the rule table that has   *)
(* a keyword the name contains                                             *)
FirstKeywordRowDecides ==
  cl_cat # <<>> /\ ~InMediaTable(cl_name) /\ RowsWithKeyword(cl_name) # {} =>
    \E i \in RowsWithKeyword(cl_name) :
      /\ cl_cat = rules[i].cat
      /\ \A j \in RowsWithKeyword(cl_name) : i <= j

(* a name with keywords of two categories has been classified *)
TwoKeywordCategoriesClassified ==
  /\ cl_cat # <<>>
  /\ ~InMediaTable(cl_name)
  /\ Cardinality(RowsWithKeyword(cl_name)) >= 2

(***************************************************************************)
(* C13: a failure while one file is processed ends the processing of that  *)
(* file only: when the one-shot scan has ended, no regular file of its     *)
(* listing is left that it did not hand to process_file, and a failed      *)
(* call has recorded no move of its file.                                  *)
(***************************************************************************)
ScanEnded == scan.state \in {"done", "raised"}

FailureEndsOneFileOnly ==
  /\ ScanEnded => \A item \in scan.items : ~is_file(files, item)
  /\ scan.state = "raised" =>
       \A i \in 1..Len(ledger.history) : ledger.history[i].src # scan.item

(***************************************************************************)
(* C14: a dry-run undo_last_operation moves no file, removes no folder and *)
(* keeps the ledger file with its records, and it prints the lines         *)
(* (restoring / warning) a real undo prints for the same ledger and disk.  *)
(***************************************************************************)
DryRunUndoReportsAsRealUndo ==
  [][IsUndoStep /\ dry_run =>
       /\ files' = files /\ dirs' = dirs /\ ledger' = ledger
       /\ \A ok \in BOOLEAN :
            last'.out = undo_last_operation(files, dirs, ledger, FALSE, ok).out]_vars

(* the first half alone: nothing on disk changes *)
DryRunUndoChangesNothing ==
  [][IsUndoStep /\ dry_run =>
       files' = files /\ dirs' = dirs /\ ledger' = ledger]_vars

(***************************************************************************)
(* C15: undo_last_operation handles the records of the ledger latest       *)
(* first, each exactly once: after the heading, the k-th line it prints    *)
(* is the restoring or warning line of the k-th record from the end.       *)
(***************************************************************************)
HandledLine(entry) == {restoring_line(entry), warning_line(entry)}

UndoInReverseOrder ==
  [][IsUndoStep /\ ledger.state = "json" /\ ledger.history # <<>> =>
       /\ last'.raised = ""
       /\ Len(last'.out) = Len(ledger.history) + 1
       /\ \A k \in 1..Len(ledger.history) :
            last'.out[k + 1] \in HandledLine(ledger.history[Len(ledger.history) - k + 1])]_vars

(* an undo pass has handled two records that print different lines *)
UndoHandledTwoRecords ==
  /\ last.op = "undo_last_operation"
  /\ Len(last.out) = 3
  /\ last.out[2] # last.out[3]

(***************************************************************************)
(* C16: a file that is not a duplicate goes to                             *)
(* <category>/<Prefix>_<date>_<seq><ext>, seq written with two digits,     *)
(* for the least seq >= 1 whose path is neither on disk nor, in a dry run, *)
(* among the simulated destinations.                                       *)
(***************************************************************************)
Free(dest) == ~exists(files, dirs, dest) /\ (dry_run => dest \notin simulated_files)

TwoDigits(n) == IF n < 10 THEN <<"0">> \o str_int(n) ELSE str_int(n)

CategoryCandidate(file_path, day, n) ==
  join(category_of(file_path),
       prefix_of(category_of(file_path)) \o <<"_">> \o strftime(day) \o <<"_">>
         \o TwoDigits(n) \o suffix(basename(file_path)))

LeastFreeSequence ==
  [][IsProcessStep /\ last'.dest # <<>> /\ ~last'.duplicate =>
       \E day \in Days, n \in 1..(Cardinality(DOMAIN files) + Cardinality(simulated_files) + 1) :
         /\ last'.dest = CategoryCandidate(last'.file, day, n)
         /\ Free(CategoryCandidate(last'.file, day, n))
         /\ \A m \in 1..(n - 1) : ~Free(CategoryCandidate(last'.file, day, m))
         /\ last'.out = <<moved_line(category_of(last'.file), last'.dest)>>]_vars

(* a file got the sequence number 02 because 01 was taken *)
SecondSequenceGiven ==
  /\ last.op = "process_file"
  /\ ~last.duplicate
  /\ \E day \in Days : last.dest = CategoryCandidate(A_TXT, day, 2)

(***************************************************************************)
(* C17: a file flagged as a duplicate goes to Duplicates/<name> when that  *)
(* path is free and else to Duplicates/Duplicate_<n>_<name> for the least  *)
(* n >= 1 whose path is free (not on disk and, in a dry run, not among the *)
(* simulated destinations); the files of the category folder stay as they  *)
(* are.                                                                    *)
(***************************************************************************)
DuplicateCandidate(name, n) ==
  IF n = 0 THEN <<"D","u","p","l","i","c","a","t","e","s","/">> \o name
  ELSE <<"D","u","p","l","i","c","a","t","e","s","/">>
         \o <<"D","u","p","l","i","c","a","t","e","_">> \o str_int(n) \o <<"_">> \o name

FreeInDuplicates(dest) ==
  /\ dest \notin DOMAIN files
  /\ dest \notin dirs
  /\ dry_run => dest \notin simulated_files

DuplicateGoesToLeastFreeName ==
  [][IsProcessStep /\ last'.duplicate /\ last'.dest # <<>> =>
       /\ \E n \in 0..(Cardinality(DOMAIN files) + Cardinality(simulated_files) + 1) :
            /\ last'.dest = DuplicateCandidate(last'.file, n)
            /\ FreeInDuplicates(DuplicateCandidate(last'.file, n))
            /\ \A m \in 0..(n - 1) : ~FreeInDuplicates(DuplicateCandidate(last'.file, m))
       /\ \A e \in iterdir(files, category_of(last'.file)) :
            e \in DOMAIN files' /\ files'[e] = files[e]
       /\ ~dry_run => /\ last'.dest \in DOMAIN files'
                      /\ files'[last'.dest] = files[last'.file]
                      /\ last'.file \notin DOMAIN files']_vars

(* a duplicate got the name Duplicate_1_<name> because <name> was taken *)
SecondDuplicateOfAName ==
  /\ last.op = "process_file"
  /\ last.duplicate
  /\ last.dest = DuplicateCandidate(last.file, 1)

(***************************************************************************)
(* C18: process_file on a folder or on a path whose name starts with "."   *)
(* does nothing: it creates no folder, moves no file, appends no record    *)
(* and prints nothing.  The name of the ledger file starts with ".", so    *)
(* the ledger file is never organized.                                     *)
(***************************************************************************)
Skipped(file_path) ==
  is_dir(dirs, file_path) \/ basename(file_path)[1] = "."

SkippedPathsUntouched ==
  [][IsProcessStep /\ Skipped(last'.file) =>
       /\ files' = files
       /\ dirs' = dirs
       /\ ledger' = ledger
       /\ simulated_files' = simulated_files
       /\ last'.out = <<>> /\ last'.raised = "" /\ last'.dest = <<>>
       /\ HISTORY_FILE[1] = "."]_vars

(* process_file has been called on a folder while a ledger exists *)
FolderProcessed ==
  /\ last.op = "process_file"
  /\ last.file \in dirs
  /\ ledger.state = "json"

(***************************************************************************)
(* C19: a non-dry-run undo removes the folder of a restored record when    *)
(* the restore has emptied it, and no other folder: not one that still     *)
(* holds files, not the folder of a record it skipped.  When the removal   *)
(* fails the folder stays and the undo goes on to its end.                 *)
(***************************************************************************)
RestoredFrom(h, d) == \E i \in 1..Len(h) : Live(h, i) /\ parent(h[i].dst) = d

FoldersAfterUndo(h, rmdir_ok) ==
  /\ last'.raised = ""
  /\ ledger'.state = "absent"
  /\ dirs' \subseteq dirs
  /\ \A d \in dirs :
       d \notin dirs' <=>
         (rmdir_ok /\ RestoredFrom(h, d) /\ \A p \in DOMAIN files' : parent(p) # d)

EmptiedFoldersRemoved ==
  [][last'.op = "undo_last_operation" /\ ~dry_run /\ ledger.state = "json"
       /\ ledger.history # <<>> =>
         \A ok \in BOOLEAN : Undo(ok) => FoldersAfterUndo(ledger.history, ok)]_vars

(* an undo has removed an emptied folder and kept one that holds a file *)
OneFolderRemovedOneKept ==
  /\ last.op = "undo_last_operation"
  /\ ~last.dry
  /\ ledger.state = "absent"
  /\ Duplicates \notin dirs
  /\ MISC_DOCUMENTS \in dirs
  /\ \E i \in 1..Len(last.out) : last.out[i].kind = "Restoring"

(***************************************************************************)
(* C20: neither process_file nor undo_last_operation destroys a file:      *)
(* neither replaces an existing file, so neither lowers the number of      *)
(* regular files under the source root.                                    *)
(***************************************************************************)
NoFileDestroyed ==
  [][IsProcessStep \/ IsUndoStep =>
       Cardinality(DOMAIN files') >= Cardinality(DOMAIN files)]_vars

(* the part of it that concerns process_file *)
ProcessDestroysNoFile ==
  [][IsProcessStep => Cardinality(DOMAIN files') = Cardinality(DOMAIN files)]_vars

=============================================================================
